---- MODULE Spec2Model ----
(***************************************************************************)
(* Model of the weaverbird LLM helper of aws-toolkit-vscode:               *)
(*   src/src/weaverbird/llm/code_helper.py  (context builder, response     *)
(*                                           parser)                       *)
(*   src/src/weaverbird/llm/claude.py       (completion orchestrator and   *)
(*                                           command line)                 *)
(*                                                                         *)
(* Text is a sequence of tokens.  A token is either one of the marker      *)
(* strings the code searches for, a line break, a slash, a blank, or an    *)
(* opaque piece of text that contains none of these.  Python's substring   *)
(* test `m in line` is membership of the token m in the line, str.split    *)
(* on a separator is a split at the separator token.                       *)
(*                                                                         *)
(* The file system is rooted at the process's working directory: a path    *)
(* is the sequence of its components, <<>> is the working directory.       *)
(* Files are written on a POSIX host (no newline translation on write).    *)
(* An absolute path is resolved from the same root.  Files are text that   *)
(* decodes; input() always returns a line; the completion service either   *)
(* answers or raises.                                                      *)
(***************************************************************************)
EXTENDS Integers, Sequences, FiniteSets, TLC

VARIABLES
    \* ---- code_helper.py ----
    fs,             \* the file system: [dirs, files]
    fs_before,      \* the file system when the current build or parse began
    workspace,      \* build_code_context's argument (a path string)
    code_context,   \* build_code_context's result, <<>> before it has run
    response,       \* write_llm_completion_to_files' claude_response
    response_split, \* its local response_split
    idx,            \* position of the `for line in response_split` loop
    file_path,      \* its local file_path
    file_content,   \* its local file_content
    writes,         \* log of the open(file_path, "w") writes performed
    raised,         \* the uncaught exception, "none" while there is none
    pc,             \* position in code_helper's functions
    \* ---- claude.py ----
    argv,           \* sys.argv
    environ,        \* names set in os.environ
    mpc,            \* position in claude.py's __main__ and Claude's methods
    query,          \* __main__'s query
    constructed,    \* Claude.__init__ has completed
    user_input,     \* talk_to_claude_interactive's local user_input
    context_file,   \* content of context.txt, Absent while it does not exist
    last_prompt,    \* prompt_without_code_context of the latest saved cycle
    last_completion,\* completion of the latest saved cycle
    sent,           \* prompt_for_claude of the latest completion-service call
    counts          \* how often each step of the cycle has run

helper_vars == <<fs, fs_before, workspace, code_context, response,
                 response_split, idx, file_path, file_content, writes, raised, pc>>
claude_vars == <<argv, environ, mpc, query, constructed, user_input, context_file,
                 last_prompt, last_completion, sent, counts>>
vars == <<fs, fs_before, workspace, code_context, response, response_split,
          idx, file_path, file_content, writes, raised, pc, argv, environ, mpc, query, constructed,
          user_input, context_file, last_prompt, last_completion, sent, counts>>

----------------------------------------------------------------------------
(* Tokens *)

NL == "\n"
CR == "\r"
FF == "\f"
SP == " "
SLASH == "/"
DOT == "."
BEGIN_MARK == "--BEGIN-FILE"
END_MARK == "--END-FILE--"
SEP == ": "

\* The characters str.splitlines() breaks a line at (those of the alphabet).
LineBreaks == {NL, CR, FF}
\* The characters str.strip() removes.
Whitespace == {SP, NL, CR, FF}

----------------------------------------------------------------------------
(* Bounds *)

MaxLines == 4          \* lines of a completion response
MaxContentLen == 2     \* tokens of a workspace file's content
MaxCycles == 2         \* completion cycles over all runs
MaxRuns == 2           \* launches of claude.py

----------------------------------------------------------------------------
(* Sequences *)

Range(s) == {s[i] : i \in 1..Len(s)}

Front(s) == SubSeq(s, 1, Len(s) - 1)

Last(s) == s[Len(s)]

IsPrefix(p, s) == Len(p) <= Len(s) /\ SubSeq(s, 1, Len(p)) = p

IsSuffix(p, s) == Len(p) <= Len(s) /\ SubSeq(s, Len(s) - Len(p) + 1, Len(s)) = p

RECURSIVE Flatten(_)
Flatten(ss) == IF ss = <<>> THEN <<>> ELSE Head(ss) \o Flatten(Tail(ss))

\* All sequences over S of length at most n.
SeqsUpTo(S, n) == UNION {[1..k -> S] : k \in 0..n}

\* sep.join(parts)
RECURSIVE Join(_, _)
Join(parts, sep) ==
    IF parts = <<>> THEN <<>>
    ELSE IF Len(parts) = 1 THEN parts[1]
    ELSE parts[1] \o <<sep>> \o Join(Tail(parts), sep)

FirstIn(s, S) == CHOOSE i \in 1..Len(s) : s[i] \in S /\ \A j \in 1..(i-1) : s[j] \notin S

\* str.split(sep): always at least one part.
RECURSIVE Split(_, _)
Split(s, sep) ==
    IF sep \notin Range(s) THEN <<s>>
    ELSE LET i == FirstIn(s, {sep})
         IN  <<SubSeq(s, 1, i - 1)>> \o Split(SubSeq(s, i + 1, Len(s)), sep)

\* str.splitlines(): "\r\n" is one break; no empty last line after a final break.
RECURSIVE SplitLines(_)
SplitLines(s) ==
    IF s = <<>> THEN <<>>
    ELSE IF Range(s) \cap LineBreaks = {} THEN <<s>>
    ELSE LET i == FirstIn(s, LineBreaks)
             j == IF s[i] = CR /\ i < Len(s) /\ s[i+1] = NL THEN i + 1 ELSE i
         IN  <<SubSeq(s, 1, i - 1)>> \o SplitLines(SubSeq(s, j + 1, Len(s)))

\* str.strip()
RECURSIVE Strip(_)
Strip(s) ==
    IF s = <<>> THEN s
    ELSE IF Head(s) \in Whitespace THEN Strip(Tail(s))
    ELSE IF Last(s) \in Whitespace THEN Strip(Front(s))
    ELSE s

\* Reading a file opened in text mode: universal newlines.
RECURSIVE read_text(_)
read_text(s) ==
    IF s = <<>> THEN <<>>
    ELSE IF Head(s) = CR
         THEN IF Len(s) > 1 /\ s[2] = NL THEN <<NL>> \o read_text(Tail(Tail(s)))
              ELSE <<NL>> \o read_text(Tail(s))
    ELSE <<Head(s)>> \o read_text(Tail(s))

\* for l in text.splitlines(): out += f"{l}\n"
RECURSIVE lines_with_newline(_)
lines_with_newline(ls) ==
    IF ls = <<>> THEN <<>> ELSE Head(ls) \o <<NL>> \o lines_with_newline(Tail(ls))

----------------------------------------------------------------------------
(* The file system *)

\* The components of a path string: split at "/", empty and "." parts dropped.
Components(p) ==
    LET parts == Split(p, SLASH)
        keep == {i \in 1..Len(parts) : parts[i] # <<>> /\ parts[i] # <<DOT>>}
        RECURSIVE Pick(_)
        Pick(i) == IF i > Len(parts) THEN <<>>
                   ELSE IF i \in keep THEN <<parts[i]>> \o Pick(i + 1)
                   ELSE Pick(i + 1)
    IN  Pick(1)

\* str(Path(p).parent), as components
path_parent(p) ==
    LET c == Components(p) IN IF c = <<>> THEN <<>> ELSE Front(c)

\* os.path.exists
path_exists(f, c) == c \in f.dirs \/ c \in DOMAIN f.files

ThroughFile(f, c) ==
    \E k \in 0..(Len(c) - 1) : SubSeq(c, 1, k) \in DOMAIN f.files

\* os.mkdir(dir) of a directory that does not exist: [fs, raised]
os_mkdir(f, c) ==
    IF Front(c) \in f.dirs
    THEN [fs |-> [f EXCEPT !.dirs = @ \cup {c}], raised |-> "none"]
    ELSE IF ThroughFile(f, c)
    THEN [fs |-> f, raised |-> "NotADirectoryError"]
    ELSE [fs |-> f, raised |-> "FileNotFoundError"]

\* with open(p, "w") as file: file.write(content): [fs, raised]
open_write(f, p, content) ==
    LET c == Components(p) IN
    IF p = <<>> THEN [fs |-> f, raised |-> "FileNotFoundError"]
    ELSE IF c \in f.dirs THEN [fs |-> f, raised |-> "IsADirectoryError"]
    ELSE IF ThroughFile(f, c) THEN [fs |-> f, raised |-> "NotADirectoryError"]
    ELSE IF Front(c) \notin f.dirs THEN [fs |-> f, raised |-> "FileNotFoundError"]
    ELSE IF Last(p) = SLASH
    THEN [fs |-> f, raised |-> IF c \in DOMAIN f.files THEN "NotADirectoryError"
                                ELSE "IsADirectoryError"]
    ELSE [fs |-> [f EXCEPT !.files = [q \in DOMAIN f.files \cup {c} |->
                                          IF q = c THEN content ELSE f.files[q]]],
          raised |-> "none"]

----------------------------------------------------------------------------
(* code_helper.py: build_code_context *)

context_header == <<NL, "The existing code files are below:", NL>>

\* The files os.walk(ws) visits: those below the directory ws names.  A
\* workspace that is no directory yields nothing (os.walk swallows the error).
walk_files(f, ws) ==
    IF ws = <<>> \/ Components(ws) \notin f.dirs THEN {}
    ELSE {c \in DOMAIN f.files : IsPrefix(Components(ws), c)}

\* The orders os.walk can visit them in: top-down, so the files below a
\* directory are visited together, those directly in it first; the order within
\* one directory listing is the operating system's.
walk_orders(f, ws) ==
    LET F == walk_files(f, ws)
        n == Cardinality(F)
        Dirs == UNION {{SubSeq(c, 1, k) : k \in 0..(Len(c) - 1)} : c \in F}
        TopDown(o) ==
            \A D \in Dirs :
                LET below == {i \in 1..n : IsPrefix(D, o[i])}
                    direct == {i \in below : Front(o[i]) = D}
                IN  /\ \A i \in below, k \in below : \A j \in i..k : j \in below
                    /\ \A i \in direct, j \in below \ direct : i < j
    IN  {o \in [1..n -> F] : (\A i, j \in 1..n : o[i] = o[j] => i = j) /\ TopDown(o)}

\* A slip of line 11: the path relative to the workspace, the root left out.
walk_path_relative(ws, c) ==
    LET rel == SubSeq(c, Len(Components(ws)) + 1, Len(c))
    IN  Tail(Flatten([i \in 1..Len(rel) |-> <<SLASH>> \o rel[i]]))

\* os.path.join(root, filename) for the file with components c below ws
walk_path(ws, c) ==
    LET rel == SubSeq(c, Len(Components(ws)) + 1, Len(c))
        tail == Tail(Flatten([i \in 1..Len(rel) |-> <<SLASH>> \o rel[i]]))
    IN  IF Last(ws) = SLASH THEN ws \o tail ELSE ws \o <<SLASH>> \o tail

\* One file's block: lines 12-18.
file_block(f, ws, c) ==
    <<BEGIN_MARK, SEP>> \o walk_path(ws, c) \o <<NL>>
    \o lines_with_newline(SplitLines(read_text(f.files[c])))
    \o <<END_MARK, NL, NL>>

build_code_context(f, ws, order) ==
    context_header \o Flatten([i \in 1..Len(order) |-> file_block(f, ws, order[i])])

----------------------------------------------------------------------------
(* code_helper.py: write_llm_completion_to_files *)

\* The parser's locals and what it acts on.
ParserState(f, w) ==
    [fs |-> f, file_path |-> <<>>, file_content |-> <<>>, writes |-> w,
     raised |-> "none"]

\* Lines 28-31: a line containing the begin marker.
begin_line(st, line) ==
    LET parts == Split(line, SEP) IN
    IF Len(parts) < 2 THEN [st EXCEPT !.raised = "IndexError"]
    ELSE [st EXCEPT !.file_path = Strip(parts[2]), !.file_content = <<>>]

\* Lines 32-44: a line containing the end marker (and no begin marker).
end_line(st, i) ==
    LET dir == path_parent(st.file_path)
        made == IF path_exists(st.fs, dir) THEN [fs |-> st.fs, raised |-> "none"]
                ELSE os_mkdir(st.fs, dir)
        wrote == open_write(made.fs, st.file_path, st.file_content)
    IN  IF made.raised # "none"
        THEN [st EXCEPT !.raised = made.raised]
        ELSE IF wrote.raised # "none"
        THEN [st EXCEPT !.fs = made.fs, !.raised = wrote.raised]
        ELSE [st EXCEPT !.fs = wrote.fs,
                        !.writes = Append(@, [path |-> st.file_path,
                                              content |-> st.file_content,
                                              line |-> i])]

\* A slip of lines 45-47: the line is appended without its newline.
content_line_no_newline(st, line) ==
    [st EXCEPT !.file_content = @ \o line]

\* Lines 45-47: any other line.
content_line(st, line) ==
    [st EXCEPT !.file_content = @ \o line \o <<NL>>]

\* A variant of the end of the loop: a block still open is flushed.
end_of_input_flush(st, i) ==
    IF st.file_path # <<>> THEN end_line(st, i) ELSE st

\* The loop has run out of lines: nothing follows the loop.
end_of_input(st, i) == st

IsBeginLine(line) == BEGIN_MARK \in Range(line)
IsEndLine(line) == ~IsBeginLine(line) /\ END_MARK \in Range(line)

\* One iteration of `for line in response_split`, i the line's position.
parse_line(st, line, i) ==
    IF IsBeginLine(line) THEN begin_line(st, line)
    ELSE IF IsEndLine(line) THEN end_line(st, i)
    ELSE content_line(st, line)

\* The loop from line i on; an exception ends it.
RECURSIVE parse_from(_, _, _)
parse_from(st, ls, i) ==
    IF st.raised # "none" THEN st
    ELSE IF i > Len(ls) THEN end_of_input(st, i)
    ELSE parse_from(parse_line(st, ls[i], i), ls, i + 1)

\* write_llm_completion_to_files(claude_response, logger) on file system f
write_llm_completion_to_files(f, claude_response) ==
    parse_from(ParserState(f, <<>>), Split(claude_response, NL), 1)

----------------------------------------------------------------------------
(* The inputs of code_helper.py *)

File(name) == <<name>>

\* The shapes of a line of a completion response.
ResponseLines ==
    { <<BEGIN_MARK, SEP, "a.txt">>,                          \* a file of the working directory
      <<BEGIN_MARK, SEP, "d", SLASH, "f", SP>>,              \* its directory is missing
      <<BEGIN_MARK, SEP, "x", SLASH, "y", SLASH, "f">>,      \* two levels are missing
      <<BEGIN_MARK>>,                                        \* no separator, no path
      <<END_MARK>>,
      <<"hello world">>,
      <<>> }

Responses == {Join(ls, NL) : ls \in SeqsUpTo(ResponseLines, MaxLines)}

\* The file system a completion is parsed on: a.txt in the working directory.
ParseFs ==
    [dirs |-> {<<>>}, files |-> [c \in {<<File("a.txt")>>} |-> <<"hello">>]]

\* The workspaces: the working directory itself and a directory w of it.
Workspaces == { <<DOT>>, <<"w">> }

ContentTokens == {"hello", NL, CR, FF, END_MARK}

Contents == SeqsUpTo(ContentTokens, MaxContentLen)

\* The workspaces' file systems: a.txt in the workspace and b in its directory
\* d, each present or not.
WorkspaceFs(ws) ==
    LET root == Components(ws)
        a == root \o <<File("a.txt")>>
        b == root \o <<File("d"), File("b")>>
    IN  { [dirs |-> {SubSeq(b, 1, k) : k \in 0..(Len(b) - 1)}, files |-> g] :
            g \in UNION {[S -> Contents] : S \in SUBSET {a, b}} }

NoContext == [exists |-> FALSE, text |-> <<>>]

\* How often, in the current run of claude.py, input() was read for an
\* instruction, build_code_context ran, the completion service was called,
\* write_llm_completion_to_files ran, __save_context ran and push_code ran; and,
\* over all runs, the launches, the cycles begun and the histories saved.
NoCounts == [input |-> 0, build |-> 0, call |-> 0, parse |-> 0, save |-> 0,
             push |-> 0, runs |-> 0, cycles |-> 0, saves |-> 0]

\* claude.py takes no part in the behaviours of code_helper.py alone.
ClaudeIdle ==
    /\ argv = <<>>
    /\ environ = {}
    /\ mpc = "idle"
    /\ query = ""
    /\ constructed = FALSE
    /\ user_input = ""
    /\ context_file = NoContext
    /\ last_prompt = <<>>
    /\ last_completion = <<>>
    /\ sent = <<>>
    /\ counts = NoCounts

----------------------------------------------------------------------------
(* code_helper.py, step by step *)

HelperInit ==
    /\ \/ /\ pc = "start"
          /\ workspace = <<"w">>
          /\ fs = ParseFs
          /\ response \in Responses
       \/ /\ pc = "build"
          /\ workspace \in Workspaces
          /\ fs \in WorkspaceFs(workspace)
          /\ response = <<>>
    /\ fs_before = fs
    /\ code_context = <<>>
    /\ response_split = <<>>
    /\ idx = 0
    /\ file_path = <<>>
    /\ file_content = <<>>
    /\ writes = <<>>
    /\ raised = "none"
    /\ ClaudeIdle

\* build_code_context(workspace), its result handed to the parser.
BuildCodeContext ==
    /\ pc = "build"
    /\ \E order \in walk_orders(fs, workspace) :
          code_context' = build_code_context(fs, workspace, order)
    /\ response' = code_context'
    /\ pc' = "start"
    /\ UNCHANGED <<fs, fs_before, workspace, response_split, idx, file_path,
                   file_content, writes, raised>>
    /\ UNCHANGED claude_vars

\* Lines 23-26.
SplitResponse ==
    /\ pc = "start"
    /\ response_split' = Split(response, NL)
    /\ idx' = 1
    /\ file_path' = <<>>
    /\ file_content' = <<>>
    /\ pc' = "loop"
    /\ UNCHANGED <<fs, fs_before, workspace, code_context, response, writes, raised>>
    /\ UNCHANGED claude_vars

Current ==
    [fs |-> fs, file_path |-> file_path, file_content |-> file_content,
     writes |-> writes, raised |-> raised]

\* The parser's state becomes st; an exception leaves the function.
Becomes(st) ==
    /\ fs' = st.fs
    /\ file_path' = st.file_path
    /\ file_content' = st.file_content
    /\ writes' = st.writes
    /\ raised' = st.raised
    /\ UNCHANGED <<fs_before, workspace, code_context, response, response_split>>
    /\ UNCHANGED claude_vars

LoopStep(st) ==
    /\ Becomes(st)
    /\ IF st.raised # "none" THEN pc' = "done" /\ idx' = idx
       ELSE pc' = "loop" /\ idx' = idx + 1

BeginLine ==
    /\ pc = "loop" /\ idx <= Len(response_split)
    /\ IsBeginLine(response_split[idx])
    /\ LoopStep(parse_line(Current, response_split[idx], idx))

EndLine ==
    /\ pc = "loop" /\ idx <= Len(response_split)
    /\ IsEndLine(response_split[idx])
    /\ LoopStep(parse_line(Current, response_split[idx], idx))

ContentLine ==
    /\ pc = "loop" /\ idx <= Len(response_split)
    /\ ~IsBeginLine(response_split[idx]) /\ ~IsEndLine(response_split[idx])
    /\ LoopStep(parse_line(Current, response_split[idx], idx))

EndOfInput ==
    /\ pc = "loop" /\ idx > Len(response_split)
    /\ Becomes(end_of_input(Current, idx))
    /\ pc' = "done"
    /\ idx' = idx

HelperNext ==
    \/ BuildCodeContext
    \/ SplitResponse
    \/ BeginLine
    \/ EndLine
    \/ ContentLine
    \/ EndOfInput

HelperSpec == HelperInit /\ [][HelperNext]_vars

----------------------------------------------------------------------------
(* Properties of code_helper.py, under HelperSpec *)

Parsed == pc = "done"

RoundTrip == code_context # <<>>

NumLines == Len(response_split)

\* Line b opens a block that no later line closes.
Unterminated(b) ==
    /\ b \in 1..NumLines
    /\ IsBeginLine(response_split[b])
    /\ \A e \in (b + 1)..NumLines : ~IsEndLine(response_split[e])

\* The nearest begin-marker line before line e, 0 if there is none.
NearestBegin(e) ==
    LET B == {b \in 1..(e - 1) : IsBeginLine(response_split[b])}
    IN  IF B = {} THEN 0 ELSE CHOOSE b \in B : \A k \in B : k <= b

\* Line e is an end-marker line with a begin-marker line since the previous
\* end-marker line (or since the start).
Closes(e) ==
    /\ e \in 1..NumLines
    /\ IsEndLine(response_split[e])
    /\ NearestBegin(e) > 0
    /\ \A k \in (NearestBegin(e) + 1)..(e - 1) : ~IsEndLine(response_split[k])

MarkerFree(f, ws) ==
    \A c \in walk_files(f, ws) : Range(f.files[c]) \cap {BEGIN_MARK, END_MARK} = {}

\* The content is empty, or ends with "\n" and has no other kind of line break.
NewlineTerminated(t) ==
    t = <<>> \/ (Last(t) = NL /\ Range(t) \cap {CR, FF} = {})

\* A file's lines, each followed by "\n", as the round trip writes them.
RECURSIVE Normalised(_)
Normalised(t) ==
    IF t = <<>> THEN <<>>
    ELSE IF t[1] = CR /\ Len(t) > 1 /\ t[2] = NL THEN <<NL>> \o Normalised(Tail(Tail(t)))
    ELSE IF t[1] \in LineBreaks THEN <<NL>> \o Normalised(Tail(t))
    ELSE IF Len(t) = 1 THEN <<t[1], NL>>
    ELSE <<t[1]>> \o Normalised(Tail(t))

\* C2 as stated: the round trip of a workspace whose file contents hold no
\* marker writes every file's original content, byte for byte, at its path.
C2_RoundTripByteIdentical ==
    (Parsed /\ RoundTrip /\ MarkerFree(fs_before, workspace)) =>
        \A c \in walk_files(fs_before, workspace) :
            /\ \E k \in 1..Len(writes) : Components(writes[k].path) = c
            /\ fs.files[c] = fs_before.files[c]

\* C2 amended: the round trip of a workspace whose file contents hold no marker
\* raises nothing and writes, at every file's path, the file's lines each
\* followed by a newline; that is the original content exactly when the
\* original is empty or ends with a newline and has no other line break.
C2_RoundTripNormalised ==
    (Parsed /\ RoundTrip /\ MarkerFree(fs_before, workspace)) =>
        /\ raised = "none"
        /\ Len(writes) = Cardinality(walk_files(fs_before, workspace))
        /\ \A c \in walk_files(fs_before, workspace) :
            /\ \E k \in 1..Len(writes) : Components(writes[k].path) = c
            /\ fs.files[c] = Normalised(fs_before.files[c])
            /\ fs.files[c] = fs_before.files[c] <=> NewlineTerminated(fs_before.files[c])

\* C2's case: a round trip of two marker-free files, one changed, one kept.
C2_Witness ==
    /\ Parsed /\ RoundTrip /\ MarkerFree(fs_before, workspace)
    /\ Cardinality(walk_files(fs_before, workspace)) = 2
    /\ \E c \in walk_files(fs_before, workspace) : fs.files[c] # fs_before.files[c]
    /\ \E c \in walk_files(fs_before, workspace) :
          fs_before.files[c] # <<>> /\ fs.files[c] = fs_before.files[c]

\* C3 as stated: the parser never raises because of the shape of the text: not
\* on a begin-marker line without the ": " separator, and not on an end-marker
\* line that no begin-marker line precedes.
C3_ParserNeverRaisesOnShape ==
    /\ raised # "IndexError"
    /\ ~(raised # "none" /\ Parsed /\ ~RoundTrip /\ NearestBegin(idx) = 0)

\* C5: a begin-marker line that no end-marker line follows writes no file: once
\* the input is parsed no write is later than that line, and the file system is
\* the one the lines before it leave.
C5_UnterminatedBlockNotWritten ==
    Parsed => \A b \in 1..NumLines :
        Unterminated(b) =>
            /\ \A k \in 1..Len(writes) : writes[k].line < b
            /\ fs = parse_from(ParserState(fs_before, <<>>),
                               SubSeq(response_split, 1, b - 1), 1).fs

\* C5's case: a block was written, then one was opened and never closed.
C5_Witness ==
    /\ Parsed /\ raised = "none"
    /\ \E b \in 1..NumLines : Unterminated(b)
    /\ file_path # <<>> /\ file_content # <<>>
    /\ Len(writes) = 1

\* C8 as stated: the write of a terminated block never fails because a
\* directory is missing, however many levels of the path are absent.
C8_WriteCreatesMissingDirectories ==
    ~(raised = "FileNotFoundError" /\ Components(file_path) # <<>>)

\* C10 as stated: over any sequence of lines parsed without an exception, the
\* writes are one per end-marker line that has a begin-marker line since the
\* previous end-marker line, and each written content is the lines strictly
\* between that end marker and the nearest begin marker before it.
C10_TwoStateParser ==
    (Parsed /\ raised = "none") =>
        /\ Len(writes) = Cardinality({e \in 1..NumLines : Closes(e)})
        /\ \A k \in 1..Len(writes) :
              LET e == writes[k].line
              IN  /\ Closes(e)
                  /\ writes[k].content =
                        Flatten([i \in 1..(e - 1 - NearestBegin(e)) |->
                                    response_split[NearestBegin(e) + i] \o <<NL>>])

----------------------------------------------------------------------------
(* claude.py: constants and pure functions *)

anthropic_api_key_env == "ANTHROPIC_API_KEY"
task_description_env == "__DEV_ENVIRONMENT_ALIAS"

claude_interactive_break_word == "thanks"

\* anthropic.HUMAN_PROMPT and anthropic.AI_PROMPT
HUMAN_PROMPT == <<NL, NL, "Human:">>
AI_PROMPT == <<NL, NL, "Assistant:">>

\* The instruction text, one token per run of whole lines: it ends with a
\* newline, and no parser ever reads it.
claude_prompt_instructions == <<"Generate code only if necessary. [...]", NL>>

\* __talk_to_claude's default workspace
default_workspace == <<SLASH, "projects", SLASH, "weaverbird-poc", SLASH, "src">>

\* __build_prompt(user_prompt)
build_prompt(user_prompt) ==
    <<NL, "Now, respond to the following request: ", user_prompt, DOT, NL>>
    \o claude_prompt_instructions \o <<NL>>

\* A slip of the history load: the earlier exchange is not read back.
load_history_empty(cf) == <<>>

\* Lines 82-87 and 93-98: the history read back from context.txt.
load_history(cf) ==
    IF cf.exists THEN lines_with_newline(SplitLines(read_text(cf.text))) ELSE <<>>

\* Line 118: what is saved as the prompt, the code context left out.
prompt_to_save_in_context(history, prompt_without_code_context) ==
    history \o HUMAN_PROMPT \o <<SP>> \o prompt_without_code_context \o AI_PROMPT

\* Line 105
prompt_for_claude(history, prompt_without_code_context, latest_code_context) ==
    history \o HUMAN_PROMPT \o <<SP>> \o prompt_without_code_context
    \o latest_code_context \o AI_PROMPT

\* __save_context(prompt, completion): the file is opened with "w".
save_context(prompt, completion) ==
    [exists |-> TRUE, text |-> prompt \o <<NL, NL>> \o completion]

\* A slip of lines 74-80: the break word is not recognised.
input_kind_no_break(u) ==
    IF u = "PR" THEN "pr" ELSE "instruction"

\* Lines 74-80: what an input of the interactive loop is.
input_kind(u) ==
    IF u = claude_interactive_break_word THEN "break"
    ELSE IF u = "PR" THEN "pr"
    ELSE "instruction"

\* Lines 156-174: [raised, interactive_mode, query, workspace] for sys.argv = a
\* (a[1] is the script's name).
parse_args(a) ==
    LET interactive == Len(a) > 1 /\ a[2] = "--interactive"
        plain == [raised |-> "none", interactive_mode |-> interactive,
                  query |-> "", workspace |-> ""]
    IN  IF ~(Len(a) > 1 /\ a[2] = "--query") THEN plain
        ELSE IF Len(a) < 3 THEN [plain EXCEPT !.raised = "IndexError"]
        ELSE IF a[3] = "" THEN [plain EXCEPT !.raised = "ValueError"]
        ELSE IF Len(a) < 4 \/ a[4] # "--workspace"
             THEN [plain EXCEPT !.raised = "ValueError", !.query = a[3]]
        ELSE IF Len(a) < 5 \/ a[5] = ""
             THEN [plain EXCEPT !.raised = "ValueError", !.query = a[3]]
        ELSE [plain EXCEPT !.query = a[3], !.workspace = a[5]]

----------------------------------------------------------------------------
(* The inputs of claude.py *)

Argvs ==
    { <<"claude.py">>,
      <<"claude.py", "--interactive">>,
      <<"claude.py", "--query">>,
      <<"claude.py", "--query", "">>,
      <<"claude.py", "--query", "do it">>,
      <<"claude.py", "--query", "do it", "--dir", ".">>,
      <<"claude.py", "--query", "do it", "--workspace">>,
      <<"claude.py", "--query", "do it", "--workspace", "">>,
      <<"claude.py", "--query", "do it", "--workspace", ".">>,
      <<"claude.py", "--query", "do it", "--workspace", "w">> }

Environs == SUBSET {anthropic_api_key_env, task_description_env}

\* What the user types at the interactive prompt.
Inputs == {claude_interactive_break_word, "PR", "fix it"}

\* The completion of the end-to-end scenario.
HelloWorldCompletion ==
    <<BEGIN_MARK, SEP, "a.txt", NL, "hello world", NL, END_MARK, NL>>

\* What the completion service answers: it stops before a human-turn marker.
Completions ==
    { <<"ok">>,
      HelloWorldCompletion,
      <<BEGIN_MARK, NL>> }

----------------------------------------------------------------------------
(* claude.py, step by step *)

Init ==
    /\ fs = ParseFs
    /\ fs_before = fs
    /\ workspace = <<>>
    /\ code_context = <<>>
    /\ response = <<>>
    /\ response_split = <<>>
    /\ idx = 0
    /\ file_path = <<>>
    /\ file_content = <<>>
    /\ writes = <<>>
    /\ raised = "none"
    /\ pc = "idle"
    /\ argv \in Argvs
    /\ environ \in Environs
    /\ mpc = "main"
    /\ query = ""
    /\ constructed = FALSE
    /\ user_input = ""
    /\ context_file = NoContext
    /\ last_prompt = <<>>
    /\ last_completion = <<>>
    /\ sent = <<>>
    /\ counts = [NoCounts EXCEPT !.runs = 1]

HelperUntouched ==
    UNCHANGED <<fs, fs_before, code_context, response, response_split, idx,
                file_path, file_content, writes, pc>>

\* Lines 155-174: the command line is read.
ParseArgs ==
    /\ mpc = "main"
    /\ LET r == parse_args(argv) IN
        /\ raised' = r.raised
        /\ query' = r.query
        /\ workspace' = IF r.workspace = "" THEN <<>> ELSE <<r.workspace>>
        /\ mpc' = IF r.raised # "none" THEN "done" ELSE "construct"
    /\ HelperUntouched
    /\ UNCHANGED <<argv, environ, constructed, user_input, context_file,
                   last_prompt, last_completion, sent, counts>>

\* Line 184, Claude.__init__ (lines 56-64), and the dispatch of lines 186-191.
Construct ==
    /\ mpc = "construct"
    /\ IF anthropic_api_key_env \notin environ
       THEN raised' = "Exception" /\ mpc' = "done" /\ constructed' = FALSE
       ELSE /\ raised' = "none"
            /\ constructed' = TRUE
            /\ mpc' = IF parse_args(argv).interactive_mode THEN "interactive"
                      ELSE IF query # "" THEN "with_query"
                      ELSE "non_interactive"
    /\ HelperUntouched
    /\ UNCHANGED <<workspace, argv, environ, query, user_input, context_file,
                   last_prompt, last_completion, sent, counts>>

\* talk_to_claude_non_interactive (lines 66-69): __talk_to_claude is called with
\* one argument and has two required parameters.
TalkNonInteractive ==
    /\ mpc = "non_interactive"
    /\ raised' = "TypeError"
    /\ mpc' = "done"
    /\ HelperUntouched
    /\ UNCHANGED <<workspace, argv, environ, query, constructed, user_input,
                   context_file, last_prompt, last_completion, sent, counts>>

\* __talk_to_claude(history, prompt_without_code_context, workspace) with
\* __process_llm_completion (lines 103-132); after it the run is at `after`.
\* The service answers or fails; an exception ends the run.
CompletionCycle(history, prompt, ws, after, inputs) ==
    /\ counts.cycles < MaxCycles
    /\ workspace' = ws
    /\ fs_before' = fs
    /\ \E order \in walk_orders(fs, ws) :
          code_context' = build_code_context(fs, ws, order)
    /\ sent' = prompt_for_claude(history, prompt, code_context')
    /\ \/ /\ raised' = "ApiException"
          /\ mpc' = "done"
          /\ counts' = [counts EXCEPT !.input = @ + inputs, !.build = @ + 1,
                                      !.call = @ + 1, !.cycles = @ + 1]
          /\ UNCHANGED <<fs, response, file_path, file_content, writes,
                         last_prompt, last_completion, context_file>>
       \/ \E completion \in Completions :
            LET st == write_llm_completion_to_files(fs, completion) IN
            /\ response' = completion
            /\ fs' = st.fs
            /\ file_path' = st.file_path
            /\ file_content' = st.file_content
            /\ writes' = st.writes
            /\ raised' = st.raised
            /\ IF st.raised # "none"
               THEN /\ mpc' = "done"
                    /\ UNCHANGED <<context_file, last_prompt, last_completion>>
                    /\ counts' = [counts EXCEPT !.input = @ + inputs, !.build = @ + 1,
                                                !.call = @ + 1, !.parse = @ + 1,
                                                !.cycles = @ + 1]
               ELSE /\ mpc' = after
                    /\ last_prompt' = prompt
                    /\ last_completion' = completion
                    /\ context_file' =
                          save_context(prompt_to_save_in_context(history, prompt),
                                       completion)
                    /\ counts' = [counts EXCEPT !.input = @ + inputs, !.build = @ + 1,
                                                !.call = @ + 1, !.parse = @ + 1,
                                                !.save = @ + 1, !.cycles = @ + 1,
                                                !.saves = @ + 1]
    /\ UNCHANGED <<response_split, idx, pc, argv, environ, query, constructed>>

\* talk_to_claude_with_query(query, workspace) (lines 92-101)
TalkWithQuery ==
    /\ mpc = "with_query"
    /\ CompletionCycle(load_history(context_file), build_prompt(query), workspace,
                       "done", 0)
    /\ UNCHANGED user_input

\* One turn of talk_to_claude_interactive's loop (lines 72-90): an instruction.
InteractiveInstruction ==
    /\ mpc = "interactive"
    /\ \E u \in Inputs :
        /\ input_kind(u) = "instruction"
        /\ user_input' = u
        /\ CompletionCycle(load_history(context_file), build_prompt(u),
                           default_workspace, "interactive", 1)

\* The break word (lines 74-75).
InteractiveBreak ==
    /\ mpc = "interactive"
    /\ \E u \in Inputs :
        /\ input_kind(u) = "break"
        /\ user_input' = u
    /\ mpc' = "done"
    /\ counts' = [counts EXCEPT !.input = @ + 1]
    /\ HelperUntouched
    /\ UNCHANGED <<workspace, raised, argv, environ, query, constructed,
                   context_file, last_prompt, last_completion, sent>>

\* "PR" (lines 76-80): the title is read and push_code runs git.
InteractivePR ==
    /\ mpc = "interactive"
    /\ \E u \in Inputs :
        /\ input_kind(u) = "pr"
        /\ user_input' = u
    /\ mpc' = "done"
    /\ counts' = [counts EXCEPT !.input = @ + 1, !.push = @ + 1]
    /\ HelperUntouched
    /\ UNCHANGED <<workspace, raised, argv, environ, query, constructed,
                   context_file, last_prompt, last_completion, sent>>

\* claude.py is launched again, the files left as they are.
Launch ==
    /\ mpc = "done"
    /\ counts.runs < MaxRuns
    /\ argv' \in Argvs
    /\ environ' \in Environs
    /\ mpc' = "main"
    /\ raised' = "none"
    /\ query' = ""
    /\ constructed' = FALSE
    /\ user_input' = ""
    /\ counts' = [NoCounts EXCEPT !.runs = counts.runs + 1,
                                  !.cycles = counts.cycles, !.saves = counts.saves]
    /\ HelperUntouched
    /\ UNCHANGED <<workspace, context_file, last_prompt, last_completion, sent>>

Next ==
    \/ ParseArgs
    \/ Construct
    \/ TalkNonInteractive
    \/ TalkWithQuery
    \/ InteractiveInstruction
    \/ InteractiveBreak
    \/ InteractivePR
    \/ Launch

Spec == Init /\ [][Next]_vars

----------------------------------------------------------------------------
(* Properties of claude.py, under Spec *)

\* The human turns a text holds.
NumTurns(t) == Cardinality({i \in 1..Len(t) : t[i] = "Human:"})

\* One exchange as __save_context writes it when there is no history.
OneTurn(prompt, completion) ==
    HUMAN_PROMPT \o <<SP>> \o prompt \o AI_PROMPT \o <<NL, NL>> \o completion

\* C1 as stated: the history file never holds more than one turn, and after two
\* saved cycles it is the latest cycle's prompt and completion alone.
C1_HistoryHoldsOneTurn ==
    context_file.exists =>
        /\ NumTurns(context_file.text) <= 1
        /\ context_file.text = OneTurn(last_prompt, last_completion)

\* C1 amended: the history file is rewritten on every cycle with the history
\* read back from it, then the new prompt without the code context, then the
\* completion: it holds one turn per saved cycle, the latest one last, and
\* never the code context.
C1_HistoryAccumulates ==
    /\ context_file.exists <=> counts.saves > 0
    /\ context_file.exists =>
        /\ NumTurns(context_file.text) = counts.saves
        /\ IsSuffix(OneTurn(last_prompt, last_completion), context_file.text)
        /\ context_header[2] \notin Range(context_file.text)

\* C1's case: a second cycle has been saved after a cycle with code context.
C1_Witness ==
    /\ counts.saves = 2
    /\ context_file.exists
    /\ code_context # context_header
    /\ Len(context_file.text) > Len(OneTurn(last_prompt, last_completion))

NonInteractiveArgs(a) ==
    ~(Len(a) > 1 /\ a[2] \in {"--interactive", "--query"})

\* C4 as stated: the non-interactive run, with the API key and the task
\* description in its environment, performs exactly one completion cycle (one
\* code-context build, one completion-service call, one parse/write pass, one
\* history save) and returns.
C4_NonInteractiveOneCycle ==
    (/\ mpc = "done"
     /\ NonInteractiveArgs(argv)
     /\ {anthropic_api_key_env, task_description_env} \subseteq environ) =>
        /\ raised = "none"
        /\ counts.build = 1
        /\ counts.call = 1
        /\ counts.parse = 1
        /\ counts.save = 1

\* The end-to-end scenario has run: the workspace is the working directory,
\* which held a.txt with "hello" alone, and the completion was received and
\* processed.
EndToEnd ==
    /\ counts.save = 1
    /\ fs_before = ParseFs
    /\ workspace = <<DOT>>
    /\ response = HelloWorldCompletion

\* C6 as stated: the context is exactly the one block with the path a.txt, and
\* a.txt then contains "hello world".
C6_EndToEndAsStated ==
    EndToEnd =>
        /\ code_context = <<BEGIN_MARK, SEP, "a.txt", NL, "hello", NL, END_MARK, NL, NL>>
        /\ fs.files[<<File("a.txt")>>] = <<"hello world">>

\* C6 amended: the context is the header line followed by the one block, whose
\* path is the workspace joined with the file name; a.txt then contains
\* "hello world" followed by a newline.
C6_EndToEnd ==
    EndToEnd =>
        /\ code_context =
              <<NL, "The existing code files are below:", NL,
                BEGIN_MARK, SEP, DOT, SLASH, "a.txt", NL, "hello", NL, END_MARK, NL, NL>>
        /\ fs.files[<<File("a.txt")>>] = <<"hello world", NL>>
        /\ DOMAIN fs.files = {<<File("a.txt")>>}

\* C6's case: the scenario has run to its end.
C6_Witness == EndToEnd /\ mpc = "done" /\ raised = "none"

\* A required argument of the query mode is missing from the command line.
OmitsQueryArgument(a) ==
    /\ Len(a) > 1 /\ a[2] = "--query"
    /\ \/ Len(a) < 3 \/ a[3] = ""
       \/ Len(a) < 4 \/ a[4] # "--workspace"
       \/ Len(a) < 5 \/ a[5] = ""

\* C7 as stated: once the command line is read, every way of omitting a
\* required query-mode argument has raised a ValueError, no Claude object has
\* been constructed and the completion service has not been called.
C7_MissingQueryArgumentIsValueError ==
    (mpc # "main" /\ OmitsQueryArgument(argv)) =>
        /\ raised = "ValueError"
        /\ ~constructed
        /\ counts.call = 0

\* C9: the input "thanks" ends the interactive loop without a completion
\* cycle: the step that reads it builds no context, calls no service, writes no
\* file, leaves the history file alone and raises nothing, and the run is over,
\* so that no further input is read in it.
C9_ExitKeywordEndsLoop ==
    [][(mpc = "interactive" /\ user_input' = "thanks"
           /\ counts'.input = counts.input + 1) =>
        /\ mpc' = "done"
        /\ raised' = raised
        /\ counts'.build = counts.build
        /\ counts'.call = counts.call
        /\ counts'.parse = counts.parse
        /\ counts'.save = counts.save
        /\ counts'.push = counts.push
        /\ fs' = fs
        /\ context_file' = context_file
        /\ sent' = sent]_vars

\* C9's case: "thanks" was entered after two instructions.
C9_Witness ==
    /\ mpc = "done"
    /\ user_input = "thanks"
    /\ raised = "none"
    /\ counts.input = 3
    /\ counts.call = 2

====
